---- MODULE Spec2Model ----
(***************************************************************************)
(* Model of src/downloader.py (fakku-downloader): URL canonicalisation      *)
(* (sanitize_url), Work Queue construction (FDownloader.__get_urls_list),  *)
(* the capture loop (FDownloader.load_all) with its outcome recording on   *)
(* the three list files and on the artifact directory tree, the browser    *)
(* session it drives (frame context, window size, re-creation), and the    *)
(* collection expansion (FDownloader.load_urls_from_collection).           *)
(*                                                                         *)
(* Strings are sequences of one-character strings, so that the regular     *)
(* expression of sanitize_url and str.split act on characters.             *)
(***************************************************************************)
EXTENDS Integers, Sequences, FiniteSets, TLC

(***************************************************************************)
(* Bounds of the model.                                                    *)
(***************************************************************************)
\* longest requested list (number of lines of urls.txt)
MaxLines == 2
\* number of program runs (constructions of FDownloader) in one behaviour
MaxRuns == 2
\* page count announced by the index page of the first item
MaxPages == 2
\* largest configured cap (-m); None is always possible too
MaxCap == 1
\* number of fragments an input string of sanitize_url is assembled from
MaxFrags == 4
\* number of listing pages of a collection
MaxListPages == 2
\* number of item entries of one listing page
MaxEntries == 2

(***************************************************************************)
(* Program constants.                                                      *)
(***************************************************************************)
FAIL_THRESHOLD == 1000

\* Python None for self.max ("no limit"): a value no cap takes
None == -1

\* <<width, height>> of the window of a new session (default_display)
MAX_DISPLAY_SETTINGS == <<1440, 2560>>

\* seconds of self.wait
WAIT == 2

(***************************************************************************)
(* Character strings.                                                      *)
(***************************************************************************)
NL == "\n"
READ == <<"/", "r", "e", "a", "d">>
PAGE == <<"/", "p", "a", "g", "e", "/">>
BASE_URL ==
    <<"h", "t", "t", "p", "s", ":", "/", "/", "w", "w", "w", ".",
      "f", "a", "k", "k", "u", ".", "n", "e", "t">>

\* s[i..] starts with the literal lit
StartsWithAt(s, i, lit) ==
    /\ i + Len(lit) - 1 <= Len(s)
    /\ SubSeq(s, i, i + Len(lit) - 1) = lit

\* first index at or after j that `.` does not match (a newline, or the end)
RECURSIVE DotRunEnd(_, _)
DotRunEnd(s, j) ==
    IF j > Len(s) \/ s[j] = NL THEN j ELSE DotRunEnd(s, j + 1)

\* r"\/read(\/page\/.+)?" tried at index i: the index after the match, 0 if
\* there is none. The optional group is greedy and so is `.+`.
MatchEnd(s, i) ==
    IF ~StartsWithAt(s, i, READ) THEN 0
    ELSE LET j == i + Len(READ)
             k == j + Len(PAGE)
         IN  IF StartsWithAt(s, j, PAGE) /\ DotRunEnd(s, k) > k
             THEN DotRunEnd(s, k)
             ELSE j

\* re.sub(pattern, "", s) from index i on: leftmost non-overlapping matches
RECURSIVE SubFrom(_, _)
SubFrom(s, i) ==
    IF i > Len(s) THEN <<>>
    ELSE IF MatchEnd(s, i) = 0 THEN <<s[i]>> \o SubFrom(s, i + 1)
    ELSE SubFrom(s, MatchEnd(s, i))

sanitize_url(url) == SubFrom(url, 1)

\* line.replace("\n", "")
RemoveNewlines(line) == SelectSeq(line, LAMBDA c : c # NL)

\* str.strip() leaves nothing
IsBlank(s) == \A i \in DOMAIN s : s[i] \in {" ", NL, "\t"}

\* index of the last "/" of s, 0 if there is none
RECURSIVE LastSlash(_, _)
LastSlash(s, i) ==
    IF i = 0 THEN 0 ELSE IF s[i] = "/" THEN i ELSE LastSlash(s, i - 1)

\* url.split("/")[-1]
LastSegment(url) == SubSeq(url, LastSlash(url, Len(url)) + 1, Len(url))

Range(f) == {f[i] : i \in DOMAIN f}


(***************************************************************************)
(* The inputs of the model.                                                *)
(***************************************************************************)
\* two item locators with different last segments
ItemX == <<"/", "h", "/", "x">>
ItemY == <<"/", "h", "/", "y">>

\* a locator that the regular expression rewrites twice:
\* "/h/x/re/readad" -> "/h/x/read" -> "/h/x"
TwiceX == ItemX \o <<"/", "r", "e">> \o READ \o <<"a", "d">>

\* the lines a requested list of the capture runs is made of: two items, an
\* empty line, and TwiceX
Lines == {ItemX, ItemY, <<>>, TwiceX}

\* the lines of the requested lists of the Work Queue construction: an item
\* as plain, /read and /read/page/N locator, a second item, an empty line
QueueLines ==
    { ItemX,
      ItemX \o READ,
      ItemX \o READ \o PAGE \o <<"3">>,
      ItemY,
      ItemY \o READ \o PAGE \o <<"3">>,
      <<>> }

\* the completed and failed lists the Work Queue construction starts from
ListsBefore == {<<>>, <<ItemX>>, <<ItemY>>, <<ItemX, ItemY>>, <<ItemY, ItemX>>}

\* the pieces the inputs of sanitize_url are assembled from
Fragments ==
    { <<"/">>, <<"r", "e">>, <<"a", "d">>, READ, PAGE, <<"3">>, <<"x">>, <<NL>> }

\* the requested lists of the capture runs. No line is repeated: the
\* constructor drops a repeated line before load_all sees the queue, and the
\* lists of the Work Queue construction do repeat lines.
RequestedLists ==
    {f \in UNION {[1 .. n -> Lines] : n \in 0 .. MaxLines} :
         \A i, j \in DOMAIN f : i # j => f[i] # f[j]}

\* the lines of the requested lists with blank lines: an item, an empty
\* line, and a line of a space and a tab
BlankLines == {ItemX, <<>>, <<" ", "\t">>}

\* the requested lists with blank lines; no line is repeated
BlankLists ==
    {f \in UNION {[1 .. n -> BlankLines] : n \in 0 .. MaxLines} :
         \A i, j \in DOMAIN f : i # j => f[i] # f[j]}

\* every url load_all can navigate to, and every folder name it can use
Urls == {sanitize_url(sanitize_url(l)) : l \in Lines \ {<<>>}}
Names == {LastSegment(u) : u \in Urls}

\* the "<N> pages" marker of an item's index page, when it is there
PagesOf(url) == IF url = ItemX THEN MaxPages ELSE 1

PageNums == 1 .. MaxPages

\* <<width, height>> of a screenshot: large enough, too narrow, too short
CaptureSizes ==
    { <<FAIL_THRESHOLD, FAIL_THRESHOLD>>,
      <<FAIL_THRESHOLD - 1, FAIL_THRESHOLD>>,
      <<FAIL_THRESHOLD, FAIL_THRESHOLD - 1>> }

\* what a reader page can hold when it is captured: the number of elements
\* of class "layer" and the number of canvas elements of its document
LayerCounts == 0 .. 2
CanvasCounts == 0 .. 1

\* the listing pages of a collection: the hrefs of the item entries of each
Hrefs == {ItemX, ItemY}
ListingPages == UNION {[1 .. k -> Hrefs] : k \in 0 .. MaxEntries}
Listings == UNION {[1 .. n -> ListingPages] : n \in 1 .. MaxListPages}

\* the three list files of a downloader
ListFiles == {"urls", "done", "fail"}

NoFile == <<>>
NoPages == [p \in PageNums |-> NoFile]

CapValues == {None} \cup (0 .. MaxCap)

(***************************************************************************)
(* State.                                                                  *)
(***************************************************************************)
VARIABLES
    urls_file,      \* urls.txt: the requested list, a sequence of lines
    done_file,      \* done.txt: the completed list
    fail_file,      \* fail.txt: the failed list
    present,        \* the list files that exist
    folders,        \* names of the item folders under the root directory
    pngs,           \* pngs[name][p]: size of <root>/<name>/<p>.png or NoFile
    cbz,            \* cbz[name]: the pages of <root>/<name>.cbz, or NoFile
    urls,           \* self.urls, the Work Queue
    max,            \* self.max
    pack,           \* self.pack
    pc,             \* where the run is: "ready" (constructed), "loop" (at the
                    \* head of the for loop), "pages" (in an item), "returned",
                    \* "exited" (program_exit), "crashed" (uncaught OSError)
    idx,            \* position of `for url in self.urls`
    urls_processed, \* load_all: urls_processed
    url,            \* load_all: url, after sanitize_url
    page_count,     \* load_all: page_count
    page_num,       \* load_all: page_num of the fetch loop
    delay_before_fetching,
    run,            \* number of the run
    done0,          \* length of done.txt when the run was constructed
    fail0,          \* length of fail.txt when the run was constructed
    pre_pages,      \* pages of the current item on disk when it was started
    fetched,        \* reader pages of the current item navigated to
    ev,             \* what the last step was and what the site answered
    browser,        \* self.browser: the session in use, its frame context and
                    \* the size of its window
    live,           \* the sessions of this process that are not closed
    listing,        \* the listing pages of the collection, each a sequence of
                    \* the hrefs of its item entries
    urls0,          \* length of urls.txt when the collection was opened
    san_n,          \* number of fragments san_in is made of
    san_in,         \* input of sanitize_url (specification SpecSan)
    san_out,        \* sanitize_url(san_in)
    san_twice       \* sanitize_url(san_out)

files == <<urls_file, done_file, fail_file>>
disk == <<folders, pngs, cbz>>
config == <<max, pack>>
locals == <<idx, urls_processed, url, page_count, page_num, delay_before_fetching>>
ghost == <<run, done0, fail0, pre_pages, fetched>>
sanvars == <<san_n, san_in, san_out, san_twice>>
session == <<browser, live>>
collvars == <<listing, urls0>>
vars == <<files, present, disk, urls, config, pc, locals, ghost, ev, session,
          collvars, sanvars>>

\* a step without synchronization
Event(kind, u, p) ==
    [kind |-> kind, url |-> u, page |-> p, wait |-> 0, js |-> FALSE]

\* a step that navigated and synchronized: the seconds waiting_loading_page
\* slept, and whether a script of the capture raised JavascriptException
Synced(kind, u, p, w, js) ==
    [kind |-> kind, url |-> u, page |-> p, wait |-> w, js |-> js]

(***************************************************************************)
(* FDownloader.__get_urls_list                                             *)
(***************************************************************************)
\* `for line in f`: every line comes with its newline
FileLines(f) == [i \in DOMAIN f |-> f[i] \o <<NL>>]

\* the lists `done` and `failed`
ReadList(f) == [i \in DOMAIN f |-> RemoveNewlines(FileLines(f)[i])]

\* a mutant of CollectUrls: the `not in done` test is missing
RECURSIVE CollectUrlsNoDone(_, _, _, _, _)
CollectUrlsNoDone(lines, i, done, failed, acc) ==
    IF i > Len(lines) THEN acc
    ELSE LET clean_line == sanitize_url(RemoveNewlines(lines[i]))
         IN  IF /\ clean_line \notin Range(failed)
                /\ clean_line \notin Range(acc)
             THEN CollectUrlsNoDone(lines, i + 1, done, failed, Append(acc, clean_line))
             ELSE CollectUrlsNoDone(lines, i + 1, done, failed, acc)

RECURSIVE CollectUrls(_, _, _, _, _)
CollectUrls(lines, i, done, failed, acc) ==
    IF i > Len(lines) THEN acc
    ELSE LET clean_line == sanitize_url(RemoveNewlines(lines[i]))
         IN  IF /\ clean_line \notin Range(done)
                /\ clean_line \notin Range(failed)
                /\ clean_line \notin Range(acc)
             THEN CollectUrls(lines, i + 1, done, failed, Append(acc, clean_line))
             ELSE CollectUrls(lines, i + 1, done, failed, acc)

get_urls_list(uf, df, ff) ==
    CollectUrls(FileLines(uf), 1, ReadList(df), ReadList(ff), <<>>)

(***************************************************************************)
(* add_done, add_failed, remove_manga_folder                               *)
(***************************************************************************)
\* a mutant of add_done: the line stays in the buffer of a file left open
add_done_unflushed(f, u) == f

\* open("a"), write, close: the file as it is on disk afterwards
add_done(f, u) == Append(f, u)

add_failed(f, u) == Append(f, u)

\* the files of a folder after remove_manga_folder deleted 1.png..n.png
RemovedPages(pp, n) == [p \in PageNums |-> IF p <= n THEN NoFile ELSE pp[p]]

\* os.rmdir succeeds on an empty directory only
RmdirOk(pp) == \A p \in PageNums : pp[p] = NoFile

(***************************************************************************)
(* The browser session: init_browser, browser.close, browser.get and the   *)
(* sleep of waiting_loading_page                                           *)
(***************************************************************************)
\* self.browser = None
NoBrowser ==
    [id |-> 0, headless |-> FALSE, cookies |-> FALSE, frame |-> "top",
     window |-> <<0, 0>>]

\* init_browser(headless=True): the n-th session of the process, the cookies
\* loaded by __set_cookies, the window at default_display
init_browser(n) ==
    [id |-> n, headless |-> TRUE, cookies |-> TRUE, frame |-> "top",
     window |-> MAX_DISPLAY_SETTINGS]

\* a mutant of browser_close: the old session is left open
browser_close_kept(l, b) == l

\* browser.close(): the sessions that stay open
browser_close(l, b) == l \ {b.id}

\* browser.get(...): a navigation leaves the session in the top-level frame
browser_get(b) == [b EXCEPT !.frame = "top"]

\* switch_to.frame(iframe) of a reader page, switch_to_default_content() of
\* any other page
switch_to(b, is_reader_page) ==
    [b EXCEPT !.frame = IF is_reader_page THEN "content" ELSE "top"]

\* a mutant of SyncDelay: the longer sleep is missing
SyncDelayBaseOnly(is_reader_page, should_add_delay) == WAIT

\* the seconds waiting_loading_page sleeps
SyncDelay(is_reader_page, should_add_delay) ==
    IF is_reader_page /\ should_add_delay THEN WAIT * 3 ELSE WAIT

(***************************************************************************)
(* Construction: FDownloader.__init__                                      *)
(***************************************************************************)
\* no sanitize_url experiment is going on
SanOff ==
    /\ san_n = 0
    /\ san_in = <<>>
    /\ san_out = <<>>
    /\ san_twice = <<>>

\* the fields and locals of an object that has not run load_all yet
Fresh ==
    /\ idx = 0
    /\ urls_processed = 0
    /\ url = <<>>
    /\ page_count = 0
    /\ page_num = 0
    /\ delay_before_fetching = FALSE
    /\ pre_pages = {}
    /\ fetched = {}

EmptyDisk ==
    /\ folders = {}
    /\ pngs = [n \in Names |-> NoPages]
    /\ cbz = [n \in Names |-> NoFile]

\* no browser was started
NoSession ==
    /\ browser = NoBrowser
    /\ live = {}

\* no collection is being expanded
CollOff ==
    /\ listing = <<>>
    /\ urls0 = 0

\* before the first start of the program: a requested list, empty completed
\* and failed lists, or some of the three files missing
Init ==
    /\ present \in SUBSET ListFiles
    /\ urls_file \in IF "urls" \in present THEN RequestedLists ELSE {<<>>}
    /\ done_file = <<>>
    /\ fail_file = <<>>
    /\ EmptyDisk
    /\ max \in CapValues
    /\ pack \in BOOLEAN
    /\ urls = <<>>
    /\ pc = "new"
    /\ Fresh
    /\ run = 0
    /\ done0 = 0
    /\ fail0 = 0
    /\ ev = Event("new", <<>>, 0)
    /\ NoSession
    /\ CollOff
    /\ SanOff

\* a mutant of ConstructFails: the missing list files are created empty
ConstructFailsCreating ==
    /\ pc \in {"new", "startup_fault"}
    /\ run < MaxRuns
    /\ present # ListFiles
    /\ present' = ListFiles
    /\ pc' = "startup_fault"
    /\ run' = run + 1
    /\ ev' = Event("startup_fault", <<>>, 0)
    /\ UNCHANGED <<files, disk, urls, config, locals, done0, fail0, pre_pages,
                   fetched, session, collvars, sanvars>>

\* the program is started and a list file is missing: open(..., "r") of
\* __get_urls_list raises FileNotFoundError out of the constructor
ConstructFails ==
    /\ pc \in {"new", "startup_fault"}
    /\ run < MaxRuns
    /\ present # ListFiles
    /\ pc' = "startup_fault"
    /\ run' = run + 1
    /\ ev' = Event("startup_fault", <<>>, 0)
    /\ UNCHANGED <<files, present, disk, urls, config, locals, done0, fail0,
                   pre_pages, fetched, session, collvars, sanvars>>

\* the program is started (again) on the files as they are, after it returned
\* or exited: the constructor, then init_browser(headless=True)
Construct ==
    /\ pc \in {"new", "returned", "exited", "crashed"}
    /\ run < MaxRuns
    /\ present = ListFiles
    /\ browser' = init_browser(1)
    /\ live' = {1}
    /\ urls' = get_urls_list(urls_file, done_file, fail_file)
    /\ pc' = "ready"
    /\ idx' = 0
    /\ urls_processed' = 0
    /\ url' = <<>>
    /\ page_count' = 0
    /\ page_num' = 0
    /\ delay_before_fetching' = FALSE
    /\ run' = run + 1
    /\ done0' = Len(done_file)
    /\ fail0' = Len(fail_file)
    /\ pre_pages' = {}
    /\ fetched' = {}
    /\ ev' = Event("construct", <<>>, 0)
    /\ UNCHANGED <<files, present, disk, config, collvars, sanvars>>

(***************************************************************************)
(* FDownloader.load_all                                                    *)
(***************************************************************************)
\* program_exit(): the process ends
program_exit == "exited"

\* the prologue: window size, root directory, urls_processed = 0
LoadAllBegin ==
    /\ pc = "ready"
    /\ browser' = [browser EXCEPT !.window = MAX_DISPLAY_SETTINGS]
    /\ pc' = "loop"
    /\ idx' = 1
    /\ urls_processed' = 0
    /\ ev' = Event("begin", <<>>, 0)
    /\ UNCHANGED <<files, present, disk, urls, config, url, page_count, page_num,
                   delay_before_fetching, ghost, live, collvars, sanvars>>

\* the for loop over self.urls is exhausted
LoopEnd ==
    /\ pc = "loop"
    /\ idx > Len(urls)
    /\ pc' = "returned"
    /\ ev' = Event("end", <<>>, 0)
    /\ UNCHANGED <<files, present, disk, urls, config, locals, ghost, session,
                   collvars, sanvars>>

\* a mutant of SkipBlank: the blank entry is counted as a processed item
SkipBlankCounted ==
    /\ pc = "loop"
    /\ idx <= Len(urls)
    /\ IsBlank(urls[idx])
    /\ idx' = idx + 1
    /\ urls_processed' = urls_processed + 1
    /\ ev' = Event("blank", urls[idx], 0)
    /\ UNCHANGED <<files, present, disk, urls, config, pc, url,
                   page_count, page_num, delay_before_fetching, ghost, session,
                   collvars, sanvars>>

\* `if not url.strip(): continue`
SkipBlank ==
    /\ pc = "loop"
    /\ idx <= Len(urls)
    /\ IsBlank(urls[idx])
    /\ idx' = idx + 1
    /\ ev' = Event("blank", urls[idx], 0)
    /\ UNCHANGED <<files, present, disk, urls, config, pc, urls_processed, url,
                   page_count, page_num, delay_before_fetching, ghost, session,
                   collvars, sanvars>>

AtUrl ==
    /\ pc = "loop"
    /\ idx <= Len(urls)
    /\ ~IsBlank(urls[idx])

\* index page navigated, waiting_loading_page(is_reader_page=False) times out
IndexTimeout ==
    /\ AtUrl
    /\ url' = sanitize_url(urls[idx])
    /\ browser' = switch_to(browser_get(browser), FALSE)
    /\ pc' = program_exit
    /\ ev' = Synced("index_timeout", url', 0, SyncDelay(FALSE, FALSE), FALSE)
    /\ UNCHANGED <<files, present, disk, urls, config, idx, urls_processed,
                   page_count, page_num, delay_before_fetching, ghost, live,
                   collvars, sanvars>>

\* a mutant of PageCountNotFound: `break` where the code has `continue`
PageCountNotFoundBreak ==
    /\ pc = "loop"
    /\ idx <= Len(urls)
    /\ ~IsBlank(urls[idx])
    /\ url' = sanitize_url(urls[idx])
    /\ browser' = switch_to(browser_get(browser), FALSE)
    /\ fail_file' = Append(fail_file, url')
    /\ pc' = "returned"
    /\ ev' = Synced("nocount", url', 0, SyncDelay(FALSE, FALSE), FALSE)
    /\ UNCHANGED <<urls_file, done_file, present, disk, urls, config, idx,
                   urls_processed, page_count, page_num, delay_before_fetching,
                   ghost, live, collvars, sanvars>>

\* index page loaded, __get_page_count raises ValueError
PageCountNotFound ==
    /\ AtUrl
    /\ url' = sanitize_url(urls[idx])
    /\ browser' = switch_to(browser_get(browser), FALSE)
    /\ fail_file' = add_failed(fail_file, url')
    /\ idx' = idx + 1
    /\ ev' = Synced("nocount", url', 0, SyncDelay(FALSE, FALSE), FALSE)
    /\ UNCHANGED <<urls_file, done_file, present, disk, urls, config, pc,
                   urls_processed, page_count, page_num, delay_before_fetching,
                   ghost, live, collvars, sanvars>>

\* index page loaded, page count found: the item's folder is made
BeginItem ==
    /\ AtUrl
    /\ url' = sanitize_url(urls[idx])
    /\ browser' = switch_to(browser_get(browser), FALSE)
    /\ page_count' = PagesOf(url')
    /\ folders' = folders \cup {LastSegment(url')}
    /\ page_num' = 1
    /\ delay_before_fetching' = TRUE
    /\ pc' = "pages"
    /\ pre_pages' = {p \in 1 .. page_count' : pngs[LastSegment(url')][p] # NoFile}
    /\ fetched' = {}
    /\ ev' = Synced("item", url', 0, SyncDelay(FALSE, FALSE), FALSE)
    /\ UNCHANGED <<files, present, pngs, cbz, urls, config, idx, urls_processed,
                   run, done0, fail0, live, collvars, sanvars>>

manga_name == LastSegment(url)

InPageLoop ==
    /\ pc = "pages"
    /\ page_num <= page_count

\* os.path.isfile(destination_file)
IsFile(name, p) == pngs[name][p] # NoFile

\* the page is on disk already: `delay_before_fetching = True; continue`
SkipPage ==
    /\ InPageLoop
    /\ IsFile(manga_name, page_num)
    /\ delay_before_fetching' = TRUE
    /\ page_num' = page_num + 1
    /\ ev' = Event("skip", url, page_num)
    /\ UNCHANGED <<files, present, disk, urls, config, pc, idx, urls_processed,
                   url, page_count, ghost, session, collvars, sanvars>>

\* a mutant of PageTimeout: the item is given up and the loop goes on
PageTimeoutContinue ==
    /\ InPageLoop
    /\ ~IsFile(manga_name, page_num)
    /\ fetched' = fetched \cup {page_num}
    /\ browser' = switch_to(browser_get(browser), TRUE)
    /\ pc' = "loop"
    /\ idx' = idx + 1
    /\ ev' = Synced("page_timeout", url, page_num,
                    SyncDelay(TRUE, delay_before_fetching), FALSE)
    /\ UNCHANGED <<files, present, disk, urls, config, urls_processed, url,
                   page_count, page_num, delay_before_fetching, run, done0, fail0,
                   pre_pages, live, collvars, sanvars>>

\* reader page navigated, the iframe entered, WebDriverWait times out
PageTimeout ==
    /\ InPageLoop
    /\ ~IsFile(manga_name, page_num)
    /\ fetched' = fetched \cup {page_num}
    /\ browser' = switch_to(browser_get(browser), TRUE)
    /\ pc' = program_exit
    /\ ev' = Synced("page_timeout", url, page_num,
                    SyncDelay(TRUE, delay_before_fetching), FALSE)
    /\ UNCHANGED <<files, present, disk, urls, config, locals, run, done0, fail0,
                   pre_pages, live, collvars, sanvars>>

\* reader page navigated, there is no iframe (NoSuchElementException)
NoIframe ==
    /\ InPageLoop
    /\ ~IsFile(manga_name, page_num)
    /\ fetched' = fetched \cup {page_num}
    /\ browser' = browser_get(browser)
    /\ pc' = program_exit
    /\ ev' = Synced("no_iframe", url, page_num,
                    SyncDelay(TRUE, delay_before_fetching), FALSE)
    /\ UNCHANGED <<files, present, disk, urls, config, locals, run, done0, fail0,
                   pre_pages, live, collvars, sanvars>>

\* getElementsByTagName('canvas')[n-2] of a document with n layers is
\* undefined, so reading its width raises JavascriptException
CanvasMissing(layers, canvases) == layers - 2 \notin 0 .. (canvases - 1)

\* getElementsByClassName('layer')[n-1] is undefined, so remove() raises
OverlayMissing(layers) == layers - 1 \notin 0 .. (layers - 1)

\* what the try block and the screenshot make of a document with an overlay
\* layer: whether JavascriptException was raised (by the canvas scripts, or
\* by the resize) and caught, and the size of the screenshot, which is the
\* canvas size the window was resized to, or the size the window had
CaptureOutcomes ==
    {[raised |-> CanvasMissing(layers, canvases) \/ resize_raises,
      shot |-> IF CanvasMissing(layers, canvases) \/ resize_raises
               THEN browser.window
               ELSE size] :
         layers \in {l \in LayerCounts : ~OverlayMissing(l)},
         canvases \in CanvasCounts,
         size \in CaptureSizes,
         resize_raises \in BOOLEAN}

\* reader page navigated and synchronized; the canvas size read and the
\* window (or viewport) resized to it, or JavascriptException caught; the
\* overlay layer removed; the screenshot saved
CapturePage ==
    /\ InPageLoop
    /\ ~IsFile(manga_name, page_num)
    /\ fetched' = fetched \cup {page_num}
    /\ delay_before_fetching' = FALSE
    /\ \E o \in CaptureOutcomes :
          /\ browser' = [switch_to(browser_get(browser), TRUE)
                            EXCEPT !.window = o.shot]
          /\ pngs' = [pngs EXCEPT ![manga_name][page_num] = o.shot]
          /\ ev' = Synced("capture", url, page_num,
                          SyncDelay(TRUE, delay_before_fetching), o.raised)
    /\ page_num' = page_num + 1
    /\ UNCHANGED <<files, present, folders, cbz, urls, config, pc, idx,
                   urls_processed, url, page_count, run, done0, fail0, pre_pages,
                   live, collvars, sanvars>>

\* reader page navigated and synchronized, its document has no layer yet:
\* JavascriptException of the canvas size is caught, that of the overlay
\* removal is not
OverlayFault ==
    /\ InPageLoop
    /\ ~IsFile(manga_name, page_num)
    /\ \E layers \in LayerCounts : OverlayMissing(layers)
    /\ fetched' = fetched \cup {page_num}
    /\ delay_before_fetching' = FALSE
    /\ browser' = switch_to(browser_get(browser), TRUE)
    /\ pc' = "crashed"
    /\ ev' = Synced("overlay_fault", url, page_num,
                    SyncDelay(TRUE, delay_before_fetching), TRUE)
    /\ UNCHANGED <<files, present, disk, urls, config, idx, urls_processed, url,
                   page_count, page_num, run, done0, fail0, pre_pages, live,
                   collvars, sanvars>>

\* a mutant of Undersized: `<=` where the code has `<`
UndersizedOrEqual(size) == size[1] <= FAIL_THRESHOLD \/ size[2] <= FAIL_THRESHOLD

\* `img.width < FAIL_THRESHOLD or img.height < FAIL_THRESHOLD`
Undersized(size) == size[1] < FAIL_THRESHOLD \/ size[2] < FAIL_THRESHOLD

\* a mutant of Failed: only the pages captured in this run are opened
FailedAmongFetched(name, n) ==
    \E p \in (1 .. n) \cap fetched : Undersized(pngs[name][p])

\* the validation loop over 1..page_count: the value of `failed`
Failed(name, n) == \E p \in 1 .. n : Undersized(pngs[name][p])

AfterPageLoop ==
    /\ pc = "pages"
    /\ page_num > page_count

\* `if failed:` add_failed, remove_manga_folder, browser.close(),
\* init_browser(headless=True), continue
ItemFailed ==
    /\ AfterPageLoop
    /\ Failed(manga_name, page_count)
    /\ fail_file' = add_failed(fail_file, url)
    /\ LET left == RemovedPages(pngs[manga_name], page_count)
       IN  /\ pngs' = [pngs EXCEPT ![manga_name] = left]
           /\ IF RmdirOk(left)
              THEN /\ folders' = folders \ {manga_name}
                   /\ live' = browser_close(live, browser) \cup {browser.id + 1}
                   /\ browser' = init_browser(browser.id + 1)
                   /\ pc' = "loop"
                   /\ idx' = idx + 1
              ELSE /\ pc' = "crashed"
                   /\ UNCHANGED <<folders, idx, session>>
    /\ ev' = Event("failed", url, 0)
    /\ UNCHANGED <<urls_file, done_file, present, cbz, urls, config,
                   urls_processed, url, page_count, page_num,
                   delay_before_fetching, ghost, collvars, sanvars>>

\* the pages of the archive written by ZipFile(zipname, "w")
Archive(name, n) == [p \in PageNums |-> IF p <= n THEN pngs[name][p] ELSE NoFile]

\* not failed: pack if asked, add_done, count, break on the cap
ItemDone ==
    /\ AfterPageLoop
    /\ ~Failed(manga_name, page_count)
    /\ LET left == RemovedPages(pngs[manga_name], page_count)
           rmdir_fails == pack /\ ~RmdirOk(left)
       IN  /\ IF pack
              THEN /\ cbz' = [cbz EXCEPT ![manga_name] = Archive(manga_name, page_count)]
                   /\ pngs' = [pngs EXCEPT ![manga_name] = left]
                   /\ folders' = IF RmdirOk(left) THEN folders \ {manga_name} ELSE folders
              ELSE UNCHANGED disk
           /\ IF rmdir_fails
              THEN /\ pc' = "crashed"
                   /\ UNCHANGED <<done_file, urls_processed, idx>>
              ELSE /\ done_file' = add_done(done_file, url)
                   /\ urls_processed' = urls_processed + 1
                   /\ IF max # None /\ urls_processed' >= max
                      THEN pc' = "returned" /\ idx' = idx
                      ELSE pc' = "loop" /\ idx' = idx + 1
    /\ ev' = Event("done", url, 0)
    /\ UNCHANGED <<urls_file, fail_file, present, urls, config, url, page_count,
                   page_num, delay_before_fetching, ghost, session, collvars,
                   sanvars>>

Next ==
    \/ Construct
    \/ ConstructFails
    \/ LoadAllBegin
    \/ LoopEnd
    \/ SkipBlank
    \/ IndexTimeout
    \/ PageCountNotFound
    \/ BeginItem
    \/ SkipPage
    \/ PageTimeout
    \/ NoIframe
    \/ CapturePage
    \/ OverlayFault
    \/ ItemFailed
    \/ ItemDone

Spec == Init /\ [][Next]_vars

(***************************************************************************)
(* The program on requested lists with empty and whitespace-only lines.    *)
(***************************************************************************)
InitBlank ==
    /\ present \in SUBSET ListFiles
    /\ urls_file \in IF "urls" \in present THEN BlankLists ELSE {<<>>}
    /\ done_file = <<>>
    /\ fail_file = <<>>
    /\ EmptyDisk
    /\ max \in CapValues
    /\ pack \in BOOLEAN
    /\ urls = <<>>
    /\ pc = "new"
    /\ Fresh
    /\ run = 0
    /\ done0 = 0
    /\ fail0 = 0
    /\ ev = Event("new", <<>>, 0)
    /\ NoSession
    /\ CollOff
    /\ SanOff

SpecBlank == InitBlank /\ [][Next]_vars

(***************************************************************************)
(* Work Queue construction alone: the constructor on requested lists that  *)
(* name an item in every variant, and on completed and failed lists left   *)
(* by earlier runs.                                                        *)
(***************************************************************************)
InitQueue ==
    /\ present = ListFiles
    /\ urls_file \in UNION {[1 .. n -> QueueLines] : n \in 0 .. MaxLines}
    /\ done_file \in ListsBefore
    /\ fail_file \in ListsBefore
    /\ Range(done_file) \cap Range(fail_file) = {}
    /\ EmptyDisk
    /\ max = None
    /\ pack = FALSE
    /\ urls = <<>>
    /\ pc = "new"
    /\ Fresh
    /\ run = 0
    /\ done0 = 0
    /\ fail0 = 0
    /\ ev = Event("new", <<>>, 0)
    /\ NoSession
    /\ CollOff
    /\ SanOff

NextQueue == Construct

SpecQueue == InitQueue /\ [][NextQueue]_vars

(***************************************************************************)
(* sanitize_url alone, applied to assembled strings and to its own result. *)
(***************************************************************************)
InitSan ==
    /\ present = ListFiles
    /\ urls_file = <<>>
    /\ done_file = <<>>
    /\ fail_file = <<>>
    /\ EmptyDisk
    /\ max = None
    /\ pack = FALSE
    /\ urls = <<>>
    /\ pc = "san_input"
    /\ Fresh
    /\ run = 0
    /\ done0 = 0
    /\ fail0 = 0
    /\ ev = Event("new", <<>>, 0)
    /\ NoSession
    /\ CollOff
    /\ SanOff

\* one more fragment is appended to the input
SanExtend ==
    /\ pc = "san_input"
    /\ san_n < MaxFrags
    /\ san_n' = san_n + 1
    /\ \E f \in Fragments : san_in' = san_in \o f
    /\ UNCHANGED <<files, present, disk, urls, config, pc, locals, ghost, ev,
                   session, collvars, san_out, san_twice>>

\* sanitize_url is applied to the input, and to what it returned
SanApply ==
    /\ pc = "san_input"
    /\ pc' = "san_done"
    /\ san_out' = sanitize_url(san_in)
    /\ san_twice' = sanitize_url(san_out')
    /\ UNCHANGED <<files, present, disk, urls, config, locals, ghost, ev,
                   session, collvars, san_n, san_in>>

NextSan == SanExtend \/ SanApply

SpecSan == InitSan /\ [][NextSan]_vars

(***************************************************************************)
(* FDownloader.load_urls_from_collection, on a constructed downloader with *)
(* its browser started.                                                    *)
(***************************************************************************)
\* the numbers N of the links /page/N of the first listing page
PageLinks(l) == 2 .. Len(l)

\* max([...]) of the page numbers
Max(S) == CHOOSE m \in S : \A n \in S : n <= m

get_page_count_in_collection(links) == IF links = {} THEN 1 ELSE Max(links)

\* what the inner loop writes for the entries of one listing page
EntryLines(entries) == [i \in DOMAIN entries |-> BASE_URL \o entries[i]]

InitCollection ==
    /\ present = ListFiles
    /\ urls_file \in {<<>>, <<BASE_URL \o ItemX>>}
    /\ done_file = <<>>
    /\ fail_file = <<>>
    /\ EmptyDisk
    /\ max = None
    /\ pack = FALSE
    /\ urls = <<>>
    /\ pc = "ready"
    /\ Fresh
    /\ run = 1
    /\ done0 = 0
    /\ fail0 = 0
    /\ ev = Event("construct", <<>>, 0)
    /\ browser = init_browser(1)
    /\ live = {1}
    /\ listing \in Listings
    /\ urls0 = 0
    /\ SanOff

\* the collection page navigated and synchronized, the page count read,
\* urls.txt opened for appending
CollectionOpen ==
    /\ pc = "ready"
    /\ browser' = switch_to(browser_get(browser), FALSE)
    /\ page_count' = get_page_count_in_collection(PageLinks(listing))
    /\ page_num' = 1
    /\ urls0' = Len(urls_file)
    /\ pc' = "listing"
    /\ ev' = Synced("collection", <<>>, 1, SyncDelay(FALSE, FALSE), FALSE)
    /\ UNCHANGED <<files, present, disk, urls, config, idx, urls_processed, url,
                   delay_before_fetching, ghost, live, listing, sanvars>>

\* the collection page, or listing page 2.., navigated: the wait times out
CollectionTimeout ==
    /\ \/ pc = "ready"
       \/ pc = "listing" /\ page_num <= page_count /\ page_num # 1
    /\ browser' = switch_to(browser_get(browser), FALSE)
    /\ pc' = program_exit
    /\ ev' = Synced("listing_timeout", <<>>, page_num, SyncDelay(FALSE, FALSE), FALSE)
    /\ UNCHANGED <<files, present, disk, urls, config, locals, ghost, live,
                   collvars, sanvars>>

\* one round of `for page_num in range(1, page_count + 1)`: the listing page
\* navigated unless it is the first, a line written for each of its entries
CollectionPage ==
    /\ pc = "listing"
    /\ page_num <= page_count
    /\ browser' = IF page_num # 1
                  THEN switch_to(browser_get(browser), FALSE)
                  ELSE browser
    /\ urls_file' = urls_file \o EntryLines(listing[page_num])
    /\ page_num' = page_num + 1
    /\ ev' = Synced("listing", <<>>, page_num,
                    IF page_num # 1 THEN SyncDelay(FALSE, FALSE) ELSE 0, FALSE)
    /\ UNCHANGED <<done_file, fail_file, present, disk, urls, config, pc, idx,
                   urls_processed, url, page_count, delay_before_fetching, ghost,
                   live, collvars, sanvars>>

\* the loop is over, urls.txt is closed
CollectionEnd ==
    /\ pc = "listing"
    /\ page_num > page_count
    /\ pc' = "collected"
    /\ ev' = Event("collected", <<>>, 0)
    /\ UNCHANGED <<files, present, disk, urls, config, locals, ghost, session,
                   collvars, sanvars>>

NextCollection ==
    \/ CollectionOpen
    \/ CollectionTimeout
    \/ CollectionPage
    \/ CollectionEnd

SpecCollection == InitCollection /\ [][NextCollection]_vars

TypeOK ==
    /\ pc \in {"new", "startup_fault", "ready", "loop", "pages", "returned",
               "exited", "crashed", "san_input", "san_done", "listing",
               "collected"}
    /\ live \in {{}, {browser.id}}
    /\ \A n \in Names : (\E p \in PageNums : pngs[n][p] # NoFile) => n \in folders

(***************************************************************************)
(* What the claims speak of.                                               *)
(***************************************************************************)
\* an image passes the size validation
LargeEnough(size) == size[1] >= FAIL_THRESHOLD /\ size[2] >= FAIL_THRESHOLD

\* the path segments of a locator
RECURSIVE Split(_, _, _)
Split(s, i, cur) ==
    IF i > Len(s) THEN <<cur>>
    ELSE IF s[i] = "/" THEN <<cur>> \o Split(s, i + 1, <<>>)
    ELSE Split(s, i + 1, Append(cur, s[i]))

Segments(s) == {Split(s, 1, <<>>)[i] : i \in DOMAIN Split(s, 1, <<>>)}

\* the path segment of the reader
ReaderSegment == <<"r", "e", "a", "d">>

\* u has no path segment "read", and is one line
NoReaderSegment(u) == ReaderSegment \notin Segments(u) /\ NL \notin Range(u)

\* the page numbers N of the variant /read/page/N
PageNumbers == {<<"3">>, <<"1", "2">>}

(***************************************************************************)
(* C2: sanitize_url is idempotent: applied to its own result, it returns   *)
(* that result, for every input string.                                    *)
(* Refuted by "/re/readad": deleting "/read" joins "/re" and "ad" into a   *)
(* new "/read", which only a second application deletes.                   *)
(***************************************************************************)
C2_Idempotent == pc = "san_done" => san_twice = san_out

(***************************************************************************)
(* C3: for every item locator u without a reader segment, sanitize_url     *)
(* returns u for u itself, for u + "/read" and for u + "/read/page/N".     *)
(* Refuted by a locator whose last segment begins with "read" ("/readx"):  *)
(* the expression is not anchored at a segment end and deletes "/read"     *)
(* out of it.                                                              *)
(***************************************************************************)
C3_VariantsYieldItem ==
    (pc = "san_done" /\ NoReaderSegment(san_in)) =>
        /\ san_out = san_in
        /\ sanitize_url(san_in \o READ) = san_in
        /\ \A n \in PageNumbers : sanitize_url(san_in \o READ \o PAGE \o n) = san_in

(***************************************************************************)
(* C4: the Work Queue built by __get_urls_list holds no identifier twice   *)
(* and none that is in the completed or the failed list, whatever the      *)
(* order of the lines and whichever variant (plain, /read, /read/page/N)   *)
(* names an item: it holds exactly the items (and the empty line) that are *)
(* listed in some variant and are in neither list, each once.              *)
(***************************************************************************)
\* the locators that name item u
Variants(u) == {u, u \o READ} \cup {u \o READ \o PAGE \o n : n \in PageNumbers}

\* u is named by some line of the requested list
Listed(u) ==
    \E i \in DOMAIN urls_file :
        urls_file[i] \in (IF u = <<>> THEN {<<>>} ELSE Variants(u))

Recorded == Range(done_file) \cup Range(fail_file)

C4_QueueDistinctAndNew ==
    pc = "ready" =>
        /\ \A i, j \in DOMAIN urls : i # j => urls[i] # urls[j]
        /\ \A i \in DOMAIN urls : urls[i] \notin Recorded
        /\ Range(urls) = {u \in {ItemX, ItemY, <<>>} : Listed(u) /\ u \notin Recorded}

\* the list names X as /read and Y as /read/page/3, Y is completed already
C4_Witness ==
    /\ pc = "ready"
    /\ urls_file = <<ItemX \o READ, ItemY \o READ \o PAGE \o <<"3">> >>
    /\ done_file = <<ItemY>>
    /\ urls = <<ItemX>>

(***************************************************************************)
(* C5: when the page-count marker is missing from an item's index page,    *)
(* load_all navigates to no reader page of the item, writes nothing to     *)
(* disk, appends the identifier to the failed list (and not to the         *)
(* completed list), and goes on with the next entry of the queue.          *)
(***************************************************************************)
C5_NoCountFailsItemOnly ==
    [][ev'.kind = "nocount" =>
           /\ fail_file' = Append(fail_file, ev'.url)
           /\ done_file' = done_file
           /\ disk' = disk
           /\ fetched' = fetched
           /\ pc' = "loop"
           /\ idx' = idx + 1]_vars

\* the marker was missing, and another identifier is waiting in the queue
C5_Witness ==
    /\ ev.kind = "nocount"
    /\ pc = "loop"
    /\ idx <= Len(urls)
    /\ ~IsBlank(urls[idx])
    /\ fail_file # <<>>
    /\ fail_file[Len(fail_file)] = ev.url

(***************************************************************************)
(* C6: when the fetch loop of an item is over and every page 1..N on disk  *)
(* is at least FAIL_THRESHOLD wide and high, the identifier is appended to *)
(* the completed list, the failed list is left alone, and the N pages      *)
(* are kept: in the item's folder without packaging, in the item's         *)
(* archive (exactly these N pages) with packaging.                         *)
(***************************************************************************)
AllPagesLarge ==
    \A p \in 1 .. page_count :
        pngs[manga_name][p] # NoFile /\ LargeEnough(pngs[manga_name][p])

C6_LargePagesComplete ==
    [][(pc = "pages" /\ page_num > page_count /\ AllPagesLarge) =>
           /\ done_file' = Append(done_file, url)
           /\ fail_file' = fail_file
           /\ IF pack
              THEN /\ cbz'[manga_name] # NoFile
                   /\ \A p \in PageNums :
                         cbz'[manga_name][p] =
                             IF p <= page_count THEN pngs[manga_name][p] ELSE NoFile
              ELSE /\ manga_name \in folders'
                   /\ \A p \in 1 .. page_count :
                         pngs'[manga_name][p] = pngs[manga_name][p]]_vars

\* the first item was completed with packaging: its archive is there
C6_Witness ==
    /\ ev.kind = "done"
    /\ ev.url = ItemX
    /\ pack
    /\ done_file # <<>>
    /\ done_file[Len(done_file)] = ItemX
    /\ cbz[LastSegment(ItemX)] # NoFile
    /\ \A p \in 1 .. MaxPages : LargeEnough(cbz[LastSegment(ItemX)][p])

(***************************************************************************)
(* C7: when a page 1..N of an item is narrower or shorter than             *)
(* FAIL_THRESHOLD, the identifier is appended to the failed list and is    *)
(* not in the completed list, and afterwards the item has no page file,    *)
(* no folder and no archive.                                               *)
(* Refuted through C2: the list <<"/h/x", "/h/x/re/readad">> queues        *)
(* "/h/x" and "/h/x/read", load_all sanitizes the second to "/h/x" and     *)
(* processes the item again after it was completed (and packed).           *)
(***************************************************************************)
SomePageSmall ==
    \E p \in 1 .. page_count :
        pngs[manga_name][p] # NoFile /\ ~LargeEnough(pngs[manga_name][p])

C7_SmallPageFailsAndPurges ==
    [][(pc = "pages" /\ page_num > page_count /\ SomePageSmall) =>
           /\ fail_file' = Append(fail_file, url)
           /\ done_file' = done_file
           /\ url \notin Range(done_file')
           /\ manga_name \notin folders'
           /\ pngs'[manga_name] = NoPages
           /\ cbz'[manga_name] = NoFile]_vars

(***************************************************************************)
(* C8: whenever load_all appends an identifier to the failed list, no      *)
(* folder and no page file of that item is on disk afterwards, pages of    *)
(* an earlier interrupted run included.                                    *)
(* Refuted: the branch for a missing page count removes nothing.           *)
(***************************************************************************)
C8_FailedItemLeavesNothing ==
    [][Len(fail_file') > Len(fail_file) =>
           LET name == LastSegment(fail_file'[Len(fail_file')])
           IN  /\ name \notin folders'
               /\ pngs'[name] = NoPages]_vars

(***************************************************************************)
(* C9: load_all navigates to a reader page only if its artifact is not on  *)
(* disk, an existing artifact is skipped without navigation, and when the  *)
(* item is recorded exactly the pages missing at its start were fetched,   *)
(* all pages 1..N are on disk, and the outcome is the validation of all of *)
(* them, those found on disk included.                                     *)
(***************************************************************************)
C9_ResumeSkipsAndRevalidates ==
    [][/\ ev'.kind \in {"capture", "page_timeout", "no_iframe"} =>
            /\ ev'.page = page_num
            /\ pngs[manga_name][page_num] = NoFile
       /\ ev'.kind = "skip" =>
            /\ pngs[manga_name][page_num] # NoFile
            /\ fetched' = fetched
            /\ disk' = disk
       /\ ev'.kind \in {"done", "failed"} =>
            /\ fetched = (1 .. page_count) \ pre_pages
            /\ \A p \in 1 .. page_count : pngs[manga_name][p] # NoFile
            /\ ev'.kind = "done" <=> AllPagesLarge
            /\ ev'.kind = "done" =>
                   done_file' = Append(done_file, url) /\ fail_file' = fail_file
            /\ ev'.kind = "failed" =>
                   fail_file' = Append(fail_file, url) /\ done_file' = done_file]_vars

\* an item resumed with page 1 on disk was recorded as failed after page 2
\* was fetched
C9_Witness ==
    /\ ev.kind = "failed"
    /\ run > 1
    /\ pre_pages = {1}
    /\ fetched = {2}

(***************************************************************************)
(* C10: when a synchronization times out or a reader page has no iframe,   *)
(* the run ends at once: that step appends nothing, writes nothing to      *)
(* disk and leaves the item in progress in neither list, and nothing is    *)
(* navigated, captured or appended until the program is started again.     *)
(* Refuted through C2: the item in progress is in the completed (or        *)
(* failed) list already when it is the second processing of "/h/x", queued *)
(* as "/h/x/read".                                                         *)
(***************************************************************************)
C10_FaultEndsRun ==
    [][/\ ev'.kind \in {"index_timeout", "page_timeout", "no_iframe"} =>
            /\ pc' = "exited"
            /\ done_file' = done_file
            /\ fail_file' = fail_file
            /\ disk' = disk
            /\ url' \notin Range(done_file') \cup Range(fail_file')
       /\ pc = "exited" =>
            /\ ev'.kind = "construct"
            /\ files' = files
            /\ disk' = disk]_vars

(***************************************************************************)
(* C1: no identifier is in the completed and in the failed list, none is   *)
(* appended twice in one run, and when load_all has returned every         *)
(* identifier of the requested list is in one of the two lists, unless     *)
(* the run stopped on the cap.                                             *)
(* Refuted through C2: of <<"/h/x", "/h/x/re/readad">> both lines are      *)
(* queued and both are recorded as "/h/x".                                 *)
(***************************************************************************)
\* what this run has appended to the two lists
AppendedInRun ==
    SubSeq(done_file, done0 + 1, Len(done_file))
        \o SubSeq(fail_file, fail0 + 1, Len(fail_file))

\* the run stopped on the cap
Capped == max # None /\ urls_processed >= max

\* the identifier under which load_all records a line of the requested list
Identifier(line) == sanitize_url(sanitize_url(RemoveNewlines(line)))

C1_EachIdentifierOnce ==
    /\ Range(done_file) \cap Range(fail_file) = {}
    /\ \A i, j \in DOMAIN AppendedInRun : i # j => AppendedInRun[i] # AppendedInRun[j]
    /\ pc = "returned" =>
           \A i \in DOMAIN urls_file :
               \/ IsBlank(urls_file[i])
               \/ Identifier(urls_file[i]) \in Recorded
               \/ Capped

(***************************************************************************)
(* C11: an identifier that a run appended to the completed or the failed   *)
(* list is not in the Work Queue of any later run, and no later run        *)
(* navigates to that item or captures a page of it.                        *)
(* Refuted through C2: the line "/h/x/re/readad" is recorded as "/h/x" by  *)
(* the first run and queued as "/h/x/read" by the second, which navigates  *)
(* to "/h/x" again.                                                        *)
(***************************************************************************)
\* the identifiers the lists held when this run was constructed
RecordedBefore ==
    Range(SubSeq(done_file, 1, done0)) \cup Range(SubSeq(fail_file, 1, fail0))

C11_RecordedNeverAgain ==
    [][/\ pc' = "ready" => Range(urls') \cap Recorded' = {}
       /\ ev'.kind \in {"index_timeout", "nocount", "item", "capture",
                        "page_timeout", "no_iframe"} =>
              ev'.url \notin RecordedBefore]_vars

(***************************************************************************)
(* C12: with a cap configured, a run appends at most cap identifiers to    *)
(* the completed list, for every cap value, 0 included; an item recorded   *)
(* as failed does not count; and when the cap is reached load_all returns  *)
(* and the entries left in the queue are in neither list.                  *)
(* Refuted by the cap 0: the cap is compared only after an item was        *)
(* completed and counted, so the first item is always processed.           *)
(***************************************************************************)
\* the number of identifiers this run has appended to the completed list
CompletedInRun == Len(done_file) - done0

C12_CapBoundsCompleted ==
    [][max # None =>
           /\ CompletedInRun' <= max
           /\ Len(fail_file') > Len(fail_file) =>
                  /\ urls_processed' = urls_processed
                  /\ done_file' = done_file
           /\ (Len(done_file') > Len(done_file) /\ CompletedInRun' >= max) =>
                  /\ pc' = "returned"
                  /\ \A j \in (idx + 1) .. Len(urls) : urls[j] \notin Recorded']_vars

(***************************************************************************)
(* C13: when load_urls_from_collection is over, what it appended to the    *)
(* requested list is one line per item entry of the listing pages 1..P, in *)
(* their order, each the base site URL followed by the entry's href, and   *)
(* no line is appended twice, even when an item is listed on two pages.    *)
(* Refuted: every entry is written as it is met, nothing compares it with   *)
(* the lines written before, so an item listed on two listing pages is     *)
(* appended twice.                                                         *)
(***************************************************************************)
\* the item entries of the listing pages 1..n, in their order
RECURSIVE EntriesUpTo(_)
EntriesUpTo(n) == IF n = 0 THEN <<>> ELSE EntriesUpTo(n - 1) \o listing[n]

\* what the expansion appended to the requested list
AppendedToUrls == SubSeq(urls_file, urls0 + 1, Len(urls_file))

C13_CollectionOnePerItem ==
    pc = "collected" =>
        /\ AppendedToUrls =
               [i \in DOMAIN EntriesUpTo(Len(listing)) |->
                    BASE_URL \o EntriesUpTo(Len(listing))[i]]
        /\ \A i, j \in DOMAIN AppendedToUrls :
               i # j => AppendedToUrls[i] # AppendedToUrls[j]

Navigated(e) ==
    \/ e.kind \in {"index_timeout", "nocount", "item", "capture", "page_timeout",
                   "no_iframe", "overlay_fault", "collection", "listing_timeout"}
    \/ e.kind = "listing" /\ e.page # 1

C15_NavigateFromTopFrame ==
    [][Navigated(ev') => browser.frame = "top"]_vars

(***************************************************************************)
(* C16: the synchronization of a fetched reader page p sleeps 3 times the  *)
(* base wait exactly when p is the first page fetched for the item or page *)
(* p - 1 was skipped because its artifact was on disk; every other fetched *)
(* page sleeps the base wait.                                              *)
(***************************************************************************)
\* the step navigated to a reader page
FetchedPage(e) ==
    e.kind \in {"capture", "page_timeout", "no_iframe", "overlay_fault"}

\* page p of the item in progress was passed without being fetched
Skipped(p) == p \in 1 .. (page_num - 1) /\ p \notin fetched

FetchedIndex(e) == e.kind \in {"index_timeout", "nocount", "item"}

\* every entry of the queue ahead of position i was recorded in this run
AheadRecorded(i) ==
    \A j \in 1 .. (i - 1) :
        IsBlank(urls[j]) \/ sanitize_url(urls[j]) \in Range(AppendedInRun)

C17_PagesAndItemsInOrder ==
    [][/\ FetchedPage(ev') =>
            /\ \A q \in fetched : q < ev'.page
            /\ idx \in DOMAIN urls
            /\ ev'.url = sanitize_url(urls[idx])
            /\ AheadRecorded(idx)
       /\ FetchedIndex(ev') =>
            /\ idx \in DOMAIN urls
            /\ ev'.url = sanitize_url(urls[idx])
            /\ AheadRecorded(idx)]_vars

\* the second entry of the queue is in its second page, the first entry is
\* recorded
C17_Witness ==
    /\ urls = <<ItemY, ItemX>>
    /\ idx = 2
    /\ ev.kind = "capture"
    /\ ev.url = ItemX
    /\ ev.page = 2
    /\ fetched = {1, 2}
    /\ ItemY \in Range(AppendedInRun)

(***************************************************************************)
(* C18: the outcome of an item is on disk in the completed or the failed   *)
(* list (written and the file closed) before the next item's index page is *)
(* navigated: at every point of a run, a crash included, the lists hold    *)
(* the outcomes of all the entries of the queue ahead of the one in        *)
(* progress.                                                               *)
(***************************************************************************)
\* the number of entries ahead of position i that are items
ItemsAhead(i) == Cardinality({j \in 1 .. (i - 1) : ~IsBlank(urls[j])})

C18_OutcomesOnDiskBeforeNext ==
    pc \in {"loop", "pages", "returned", "exited", "crashed"} =>
        /\ AheadRecorded(idx)
        /\ Len(AppendedInRun) >= ItemsAhead(idx)

\* the run ended on a fault in the second item, the outcome of the first is
\* in the lists
C18_Witness ==
    /\ pc = "exited"
    /\ idx = 2
    /\ ev.kind = "page_timeout"
    /\ ~IsBlank(urls[1])
    /\ Len(AppendedInRun) = 1
    /\ AppendedInRun[1] = sanitize_url(urls[1])

(***************************************************************************)
(* C19: when a script raises while the canvas size of page p is read or    *)
(* the window is resized, the item does not fail and the run does not end: *)
(* the overlay is removed, page p is captured at the size the window has,  *)
(* the page is not fetched again and the fetch loop goes on with p + 1.    *)
(* Refuted by a reader page whose document has no element of class         *)
(* "layer" yet: the canvas script raises and is caught, the overlay script *)
(* `getElementsByClassName('layer')[-1].remove()` raises as well, outside  *)
(* the try, and the run ends with page p not captured.                     *)
(***************************************************************************)
C19_ScriptFaultCapturesAnyway ==
    [][(FetchedPage(ev') /\ ev'.js) =>
           /\ ev'.kind = "capture"
           /\ pc' = "pages"
           /\ pngs'[manga_name][page_num] = browser.window
           /\ page_num' = page_num + 1
           /\ fail_file' = fail_file
           /\ done_file' = done_file]_vars

(***************************************************************************)
(* C20: when an item fails the validation, the session in use is closed    *)
(* and a new headless session, with the cookies loaded and the window at   *)
(* the initial display size, is in use before the next index page is       *)
(* navigated; when an item is recorded as completed, or fails for a        *)
(* missing page count, the session stays the one it was.                   *)
(***************************************************************************)
\* the fetch loop of the item is over
FetchLoopOver == pc = "pages" /\ page_num > page_count

C20_SessionRecreatedOnFailureOnly ==
    [][/\ (FetchLoopOver /\ SomePageSmall /\ pc' = "loop") =>
            /\ browser.id \notin live'
            /\ live' = {browser'.id}
            /\ browser'.id # browser.id
            /\ browser'.headless
            /\ browser'.cookies
            /\ browser'.window = MAX_DISPLAY_SETTINGS
            /\ browser'.frame = "top"
       /\ (FetchLoopOver /\ AllPagesLarge) => session' = session
       /\ ev'.kind = "nocount" => browser'.id = browser.id /\ live' = live
       /\ FetchedIndex(ev') => live = {browser.id}]_vars

\* an item failed the validation in the first session; the second session is
\* in use and another entry of the queue is waiting
C20_Witness ==
    /\ ev.kind = "failed"
    /\ pc = "loop"
    /\ idx <= Len(urls)
    /\ ~IsBlank(urls[idx])
    /\ browser = init_browser(2)
    /\ live = {2}

(***************************************************************************)
(* C21: a line of the requested list that is empty or only whitespace is   *)
(* never navigated to, gets no folder, is never appended to the completed  *)
(* or the failed list and does not count toward the cap; the run goes on   *)
(* with the next entry of the queue.                                       *)
(***************************************************************************)
\* the loop is at a blank entry of the queue
AtBlank ==
    /\ pc = "loop"
    /\ idx <= Len(urls)
    /\ IsBlank(urls[idx])

\* the blank lines of the requested list are in the queue of the run
BlankLinesQueued ==
    pc \in {"ready", "loop", "pages"} =>
        \A i \in DOMAIN urls_file :
            IsBlank(urls_file[i]) => urls_file[i] \in Range(urls)

C21_BlankLineSkipped ==
    [][/\ AtBlank =>
            /\ ~Navigated(ev')
            /\ UNCHANGED <<session, disk, files, urls_processed>>
            /\ pc' = "loop"
            /\ idx' = idx + 1
       /\ Navigated(ev') => ~IsBlank(ev'.url)
       /\ \A f \in folders' : ~IsBlank(f)
       /\ \A l \in Range(done_file') \cup Range(fail_file') : ~IsBlank(l)
       /\ BlankLinesQueued']_vars

\* in the second run the whitespace-only line was skipped again, and the item
\* of the list is next in the queue
C21_Witness ==
    /\ run = 2
    /\ urls_file = <<<<" ", "\t">>, ItemX>>
    /\ urls = urls_file
    /\ pc = "loop"
    /\ idx = 2
    /\ ev.kind = "blank"
    /\ ev.url = <<" ", "\t">>
    /\ urls_processed = 0
    /\ max = 1

====
